---- MODULE Spec2Model ----
(***************************************************************************)
(* Model of empty_benchmark.py: the benchmarking harness for genomic       *)
(* variant databases.  main() drives a list of DatabaseBenchmark backends  *)
(* through a list of queries: connect, per query a warmup loop and the     *)
(* measured loop of run_benchmark, print_statistics, then disconnect, and  *)
(* finally save_results.                                                   *)
(*                                                                         *)
(* A backend is external code: each connect(), query call and disconnect() *)
(* either returns or raises, chosen nondeterministically.  The list        *)
(* `databases` is the extension point of main() (filled by the code the    *)
(* TODO at line 258 asks for); the empty list is the shipped default.      *)
(***************************************************************************)
EXTENDS Integers, Sequences, FiniteSets, TLC

\* ---------------------------------------------------------------- bounds
MaxBackends == 2
MaxQueries == 2
MaxWarmup == 2
MaxIterations == 2
\* perf_counter() differences, in whole seconds
MaxElapsed == 1
\* row counts a query may return (0 is a valid result)
MaxRows == 1
\* total number of query invocations (warmup + measured) of one run
MaxCalls == 4
\* inputs of print_statistics checked on its own: lists of up to MaxSamples
\* samples with times 1..MaxTime, and the times 1..n in two shuffled orders
\* for every n up to MaxRangeLen
MaxSamples == 4
MaxTime == 3
MaxRangeLen == 24
\* inputs of save_results checked on its own: lists of up to MaxExport results
MaxExport == 3

\* ------------------------------------------------------------ state
VARIABLES
    databases,    \* main: the list of backends (their names), lines 256-261
    args,         \* main: parsed arguments (iterations, warmup, queries), line 253
    queries,      \* main: the query ids to run, lines 272-327
    all_results,  \* main: the accumulator, line 329
    pc,           \* position of main
    dbIdx,        \* position of `for db_benchmark in databases`, 1-based
    qIdx,         \* position of `for query_id, ... in queries`, 1-based
    w,            \* warmup invocations made for the current pair (`_` of line 350)
    i,            \* run_benchmark: loop index `i` of line 172 (0-based)
    results,      \* run_benchmark: local list `results`, line 170
    log,          \* what print() has reported to the console
    summaries,    \* what print_statistics has reported, one entry per call
    output,       \* the output file written by save_results
    calls         \* history: every call made on a backend, in order

vars == <<databases, args, queries, all_results, pc, dbIdx, qIdx, w, i,
          results, log, summaries, output, calls>>

\* ------------------------------------------------------------ helpers
Range(s) == {s[k] : k \in DOMAIN s}

RECURSIVE SumSeq(_)
SumSeq(s) == IF s = <<>> THEN 0 ELSE Head(s) + SumSeq(Tail(s))

\* the ids of the hardcoded default queries, lines 285-321
DefaultQueryIds ==
    <<"Q1", "Q2", "Q3", "Q4", "Q5", "Q6", "Q7", "Q8", "Q9", "Q10", "Q11", "Q12">>

\* the query catalog main() builds before filtering (lines 272-321)
Catalog == SubSeq(DefaultQueryIds, 1, MaxQueries)

BackendNames == <<"db1", "db2", "db3", "db4">>

\* values of --queries after split(','): "all", or a comma-separated list
QueriesArgs ==
    {<<"all">>, <<"Q1">>, <<"Q2", "Q1">>, <<"Q99">>, <<"Q2", "Q99">>}

\* what one query invocation on a backend does: returns a row count after
\* some elapsed time, or raises
Outcomes ==
    {[ok |-> TRUE, rows |-> r, elapsed |-> e, err |-> ""] :
        r \in 0..MaxRows, e \in 1..MaxElapsed}
    \cup {[ok |-> FALSE, rows |-> 0, elapsed |-> 0, err |-> "QueryError"]}

\* a line of console output
Msg(kind, db, op, iter, detail) ==
    [kind |-> kind, db |-> db, op |-> op, iter |-> iter, detail |-> detail]

\* an entry of the call history: the call made on backend b (for query q, loop
\* index idx), whether it returned, and the row count a measured call returned
Call(kind, b, q, idx, ok, ret) ==
    [kind |-> kind, b |-> b, q |-> q, idx |-> idx, ok |-> ok, ret |-> ret]

\* ------------------------------------------------- BenchmarkResult
\* BenchmarkResult.__init__: the timestamp is datetime.now() at construction,
\* modelled as a logical clock (the number of backend calls made so far)
BenchmarkResult(database, query_type, response_time, rows_returned, cache_state, now) ==
    [database |-> database, query_type |-> query_type,
     response_time |-> response_time, rows_returned |-> rows_returned,
     cache_state |-> cache_state, timestamp |-> now]

\* BenchmarkResult.to_dict: the dict's keys, in insertion order
FieldNames ==
    <<"database", "query_type", "response_time_ms", "rows_returned",
      "cache_state", "timestamp">>

to_dict_Swapped(r) ==
    [database |-> r.database, query_type |-> r.query_type,
     response_time_ms |-> r.rows_returned, rows_returned |-> r.response_time,
     cache_state |-> r.cache_state, timestamp |-> r.timestamp]

to_dict(r) ==
    [database |-> r.database, query_type |-> r.query_type,
     response_time_ms |-> r.response_time, rows_returned |-> r.rows_returned,
     cache_state |-> r.cache_state, timestamp |-> r.timestamp]

\* ------------------------------------------------- time_query
\* time_query: (end - start) * 1000 and the row count; an exception of func
\* propagates (no value is returned)
time_query(o) ==
    [raised |-> ~o.ok, response_time_ms |-> o.elapsed * 1000, row_count |-> o.rows]

\* ------------------------------------------------- run_benchmark
\* the cache_state main passes to run_benchmark (line 363)
CacheStateArg == "warm"

\* one pass of the loop body of run_benchmark (lines 173-185) on `acc`
RunIteration_CoercesFailure(acc, name, query_name, o, cache_state, now) ==
    Append(acc, BenchmarkResult(name, query_name, time_query(o).response_time_ms,
                                time_query(o).row_count, cache_state, now))

RunIteration_Prepends(acc, name, query_name, o, cache_state, now) ==
    IF time_query(o).raised
    THEN acc
    ELSE <<BenchmarkResult(name, query_name, time_query(o).response_time_ms,
                           time_query(o).row_count, cache_state, now)>> \o acc

RunIteration(acc, name, query_name, o, cache_state, now) ==
    IF time_query(o).raised
    THEN acc
    ELSE Append(acc, BenchmarkResult(name, query_name, time_query(o).response_time_ms,
                                     time_query(o).row_count, cache_state, now))

\* ------------------------------------------------- print_statistics
Rat(n, d) == [num |-> n, den |-> d]

RECURSIVE Insert(_, _)
Insert(x, s) ==
    IF s = <<>> THEN <<x>>
    ELSE IF x <= Head(s) THEN <<x>> \o s
    ELSE <<Head(s)>> \o Insert(x, Tail(s))

\* sorted(times), ascending
RECURSIVE sorted(_)
sorted(s) == IF s = <<>> THEN <<>> ELSE Insert(Head(s), sorted(Tail(s)))

\* times = [r.response_time for r in results]
TimesOf(rs) == [k \in 1..Len(rs) |-> rs[k].response_time]

\* statistics.mean
mean(t) == Rat(SumSeq(t), Len(t))

\* statistics.median: the middle value, or the average of the two middle values
median_NoHalving(t) ==
    LET s == sorted(t)
        n == Len(t)
    IN  IF n % 2 = 1 THEN Rat(s[(n \div 2) + 1], 1)
        ELSE Rat(s[n \div 2] + s[(n \div 2) + 1], 1)

median(t) ==
    LET s == sorted(t)
        n == Len(t)
    IN  IF n % 2 = 1 THEN Rat(s[(n \div 2) + 1], 1)
        ELSE Rat(s[n \div 2] + s[(n \div 2) + 1], 2)

\* statistics.stdev, as its square (the sample variance): sum((x - mean)^2) / (n - 1)
stdev_sq(t) ==
    LET n == Len(t)
        sq == [k \in 1..n |-> t[k] * t[k]]
    IN  Rat(n * SumSeq(sq) - SumSeq(t) * SumSeq(t), n * (n - 1))

min(t) == CHOOSE x \in Range(t) : \A y \in Range(t) : x <= y
max(t) == CHOOSE x \in Range(t) : \A y \in Range(t) : x >= y

\* int(len(sorted_times) * 0.95) and int(len(sorted_times) * 0.99): for every
\* length up to 2,000,000 the double product truncates to (n * pct) \div 100
PercentileIndex_RoundsUp(n, pct) == (n * pct + 99) \div 100

PercentileIndex(n, pct) == (n * pct) \div 100

\* sorted_times[idx] (0-based): <<value>>, or <<>> when it raises IndexError
Lookup(s, idx) == IF idx + 1 \in DOMAIN s THEN <<s[idx + 1]>> ELSE <<>>

\* print_statistics: what it prints.  A field is <<v>> when its line was
\* printed and <<>> when it was not; raised = an exception left the function
print_statistics_NoGuard(rs, query_name, db_name) ==
    LET t == TimesOf(rs)
        n == Len(t)
    IN  [db |-> db_name, op |-> query_name, nodata |-> FALSE, raised |-> FALSE,
         count |-> <<n>>,
         mean |-> IF n = 0 THEN <<Rat(0, 1)>> ELSE <<mean(t)>>,
         median |-> IF n = 0 THEN <<Rat(0, 1)>> ELSE <<median(t)>>,
         min |-> IF n = 0 THEN <<0>> ELSE <<min(t)>>,
         max |-> IF n = 0 THEN <<0>> ELSE <<max(t)>>,
         stdev |-> IF n > 1 THEN <<stdev_sq(t)>> ELSE <<>>,
         stdev_na |-> ~(n > 1),
         p95 |-> IF n = 0 THEN <<0>> ELSE Lookup(sorted(t), PercentileIndex(n, 95)),
         p99 |-> IF n = 0 THEN <<0>> ELSE Lookup(sorted(t), PercentileIndex(n, 99))]

print_statistics_StdevZero(rs, query_name, db_name) ==
    IF rs = <<>>
    THEN [db |-> db_name, op |-> query_name, nodata |-> TRUE, raised |-> FALSE,
          count |-> <<>>, mean |-> <<>>, median |-> <<>>, min |-> <<>>,
          max |-> <<>>, stdev |-> <<>>, stdev_na |-> FALSE,
          p95 |-> <<>>, p99 |-> <<>>]
    ELSE
    LET t == TimesOf(rs)
        n == Len(t)
        sorted_times == sorted(t)
        p95 == Lookup(sorted_times, PercentileIndex(n, 95))
        p99 == IF p95 = <<>> THEN <<>>
               ELSE Lookup(sorted_times, PercentileIndex(n, 99))
    IN  [db |-> db_name, op |-> query_name, nodata |-> FALSE,
         raised |-> (p95 = <<>> \/ p99 = <<>>),
         count |-> <<n>>, mean |-> <<mean(t)>>, median |-> <<median(t)>>,
         min |-> <<min(t)>>, max |-> <<max(t)>>,
         stdev |-> IF n > 1 THEN <<stdev_sq(t)>> ELSE <<Rat(0, 1)>>,
         stdev_na |-> FALSE,
         p95 |-> p95, p99 |-> p99]

print_statistics(rs, query_name, db_name) ==
    IF rs = <<>>
    THEN [db |-> db_name, op |-> query_name, nodata |-> TRUE, raised |-> FALSE,
          count |-> <<>>, mean |-> <<>>, median |-> <<>>, min |-> <<>>,
          max |-> <<>>, stdev |-> <<>>, stdev_na |-> FALSE,
          p95 |-> <<>>, p99 |-> <<>>]
    ELSE
    LET t == TimesOf(rs)
        n == Len(t)
        sorted_times == sorted(t)
        p95 == Lookup(sorted_times, PercentileIndex(n, 95))
        p99 == IF p95 = <<>> THEN <<>>
               ELSE Lookup(sorted_times, PercentileIndex(n, 99))
    IN  [db |-> db_name, op |-> query_name, nodata |-> FALSE,
         raised |-> (p95 = <<>> \/ p99 = <<>>),
         count |-> <<n>>, mean |-> <<mean(t)>>, median |-> <<median(t)>>,
         min |-> <<min(t)>>, max |-> <<max(t)>>,
         stdev |-> IF n > 1 THEN <<stdev_sq(t)>> ELSE <<>>,
         stdev_na |-> ~(n > 1),
         p95 |-> p95, p99 |-> p99]

\* ------------------------------------------------- save_results
NoFile == [exists |-> FALSE, header |-> <<>>, rows |-> <<>>]

\* csv.DictWriter.writerow: the dict's values in fieldnames order, as text
writerow(d, fieldnames) == [k \in 1..Len(fieldnames) |-> ToString(d[fieldnames[k]])]

\* save_results: open(output_file, 'w') raises when the destination is not
\* writable; otherwise the file is created (truncated) and, for a non-empty
\* list, the header and one row per result are written
save_results(rs, writable) ==
    IF ~writable
    THEN [raised |-> TRUE, file |-> NoFile, printed |-> <<>>]
    ELSE IF rs /= <<>>
    THEN [raised |-> FALSE,
          file |-> [exists |-> TRUE, header |-> FieldNames,
                    rows |-> [k \in 1..Len(rs) |-> writerow(to_dict(rs[k]), FieldNames)]],
          printed |-> <<Msg("results_saved", "", "", 0, "")>>]
    ELSE [raised |-> FALSE,
          file |-> [exists |-> TRUE, header |-> <<>>, rows |-> <<>>],
          printed |-> <<Msg("no_results_to_save", "", "", 0, ""),
                        Msg("results_saved", "", "", 0, "")>>]

\* ------------------------------------------------- main: the workload
\* main, lines 323-327: keep the queries whose id is in the filter
FilterQueries_FilterOrder(qs, arg) ==
    IF arg /= <<"all">>
    THEN SelectSeq(arg, LAMBDA q : q \in Range(qs))
    ELSE qs

FilterQueries(qs, arg) ==
    IF arg /= <<"all">>
    THEN SelectSeq(qs, LAMBDA q : q \in Range(arg))
    ELSE qs

\* name of the backend at position b of `databases`
Name(b) == databases[b]

\* where main goes after the body of the query loop for the query at position q
PcAfterQuery_DisconnectsInLoop(q) == "disconnect"

PcAfterQuery_SkipsDisconnect(q) == IF q + 1 > Len(queries) THEN "connect" ELSE "query"

PcAfterQuery(q) == IF q + 1 > Len(queries) THEN "disconnect" ELSE "query"

\* where main goes after the body of the backend loop for the backend at position b
PcAfterBackend_Hangs(b) == IF b + 1 > Len(databases) THEN "hang" ELSE "connect"

PcAfterBackend(b) == IF b + 1 > Len(databases) THEN "save" ELSE "connect"

Init ==
    /\ \E nb \in 0..MaxBackends : databases = SubSeq(BackendNames, 1, nb)
    /\ args \in [iterations : 0..MaxIterations, warmup : 0..MaxWarmup,
                 queries : QueriesArgs]
    /\ Len(databases) * Len(FilterQueries(Catalog, args.queries))
          * (args.warmup + args.iterations) <= MaxCalls
    /\ queries = <<>>
    /\ all_results = <<>>
    /\ pc = "start"
    /\ dbIdx = 0
    /\ qIdx = 0
    /\ w = 0
    /\ i = 0
    /\ results = <<>>
    /\ log = <<>>
    /\ summaries = <<>>
    /\ output = NoFile
    /\ calls = <<>>

\* main, lines 253-329: return when there is no backend, else build and
\* filter the queries and create the accumulator
Start ==
    /\ pc = "start"
    /\ IF databases = <<>>
       THEN /\ log' = Append(log, Msg("no_databases", "", "", 0, ""))
            /\ pc' = "done"
            /\ UNCHANGED <<queries, dbIdx>>
       ELSE /\ queries' = FilterQueries(Catalog, args.queries)
            /\ log' = IF args.queries /= <<"all">>
                      THEN Append(log, Msg("filtered_queries", "", "", 0, ""))
                      ELSE log
            /\ dbIdx' = 1
            /\ pc' = "connect"
    /\ all_results' = <<>>
    /\ UNCHANGED <<databases, args, qIdx, w, i, results, summaries, output, calls>>

\* main, lines 332-342: connect to the next backend; on failure report and
\* `continue` with the backend after it
Connect_NoSkip ==
    /\ pc = "connect"
    /\ \E ok \in BOOLEAN :
        /\ calls' = Append(calls, Call("connect", dbIdx, 0, 0, ok, 0))
        /\ log' = log \o <<Msg("benchmarking", Name(dbIdx), "", 0, ""),
                           IF ok THEN Msg("connected", Name(dbIdx), "", 0, "")
                           ELSE Msg("connect_failed", Name(dbIdx), "", 0, "ConnectionError")>>
        /\ qIdx' = 1
        /\ pc' = IF queries = <<>> THEN "disconnect" ELSE "query"
        /\ UNCHANGED dbIdx
    /\ UNCHANGED <<databases, args, queries, all_results, w, i, results,
                   summaries, output>>

Connect ==
    /\ pc = "connect"
    /\ \E ok \in BOOLEAN :
        /\ calls' = Append(calls, Call("connect", dbIdx, 0, 0, ok, 0))
        /\ log' = log \o <<Msg("benchmarking", Name(dbIdx), "", 0, ""),
                           IF ok THEN Msg("connected", Name(dbIdx), "", 0, "")
                           ELSE Msg("connect_failed", Name(dbIdx), "", 0, "ConnectionError")>>
        /\ IF ok
           THEN /\ qIdx' = 1
                /\ pc' = IF queries = <<>> THEN "disconnect" ELSE "query"
                /\ UNCHANGED dbIdx
           ELSE /\ dbIdx' = dbIdx + 1
                /\ pc' = PcAfterBackend(dbIdx)
                /\ UNCHANGED qIdx
    /\ UNCHANGED <<databases, args, queries, all_results, w, i, results,
                   summaries, output>>

\* main, lines 344-349, and run_benchmark, line 170: start the next query
BeginQuery ==
    /\ pc = "query"
    /\ log' = log \o <<Msg("running", Name(dbIdx), queries[qIdx], 0, "")>>
                  \o (IF args.warmup > 0
                      THEN <<Msg("warmup", Name(dbIdx), queries[qIdx], args.warmup, "")>>
                      ELSE <<>>)
    /\ w' = 0
    /\ i' = 0
    /\ results' = <<>>
    /\ pc' = IF args.warmup > 0 THEN "warmup" ELSE "measure"
    /\ UNCHANGED <<databases, args, queries, all_results, dbIdx, qIdx,
                   summaries, output, calls>>

\* main, lines 350-354: one warmup invocation; its result is discarded and
\* its exception is printed
WarmupInvoke_Retains ==
    /\ pc = "warmup"
    /\ \E o \in Outcomes :
        /\ calls' = Append(calls, Call("warmup", dbIdx, qIdx, w, o.ok, 0))
        /\ log' = IF o.ok THEN log
                  ELSE Append(log, Msg("warmup_error", "", "", 0, o.err))
        /\ results' = RunIteration(results, Name(dbIdx), queries[qIdx], o,
                                   CacheStateArg, Len(calls) + 1)
    /\ w' = w + 1
    /\ pc' = IF w + 1 < args.warmup THEN "warmup" ELSE "measure"
    /\ UNCHANGED <<databases, args, queries, all_results, dbIdx, qIdx, i,
                   summaries, output>>

WarmupInvoke_Breaks ==
    /\ pc = "warmup"
    /\ \E o \in Outcomes :
        /\ calls' = Append(calls, Call("warmup", dbIdx, qIdx, w, o.ok, 0))
        /\ log' = IF o.ok THEN log
                  ELSE Append(log, Msg("warmup_error", "", "", 0, o.err))
        /\ pc' = IF o.ok /\ w + 1 < args.warmup THEN "warmup" ELSE "measure"
    /\ w' = w + 1
    /\ UNCHANGED <<databases, args, queries, all_results, dbIdx, qIdx, i,
                   results, summaries, output>>

WarmupInvoke ==
    /\ pc = "warmup"
    /\ \E o \in Outcomes :
        /\ calls' = Append(calls, Call("warmup", dbIdx, qIdx, w, o.ok, 0))
        /\ log' = IF o.ok THEN log
                  ELSE Append(log, Msg("warmup_error", "", "", 0, o.err))
    /\ w' = w + 1
    /\ pc' = IF w + 1 < args.warmup THEN "warmup" ELSE "measure"
    /\ UNCHANGED <<databases, args, queries, all_results, dbIdx, qIdx, i,
                   results, summaries, output>>

\* run_benchmark, lines 172-185: one measured iteration
MeasuredInvoke ==
    /\ pc = "measure"
    /\ i < args.iterations
    /\ \E o \in Outcomes :
        /\ calls' = Append(calls, Call("measured", dbIdx, qIdx, i, o.ok, o.rows))
        /\ results' = RunIteration(results, Name(dbIdx), queries[qIdx], o,
                                   CacheStateArg, Len(calls) + 1)
        /\ log' = IF o.ok THEN log
                  ELSE Append(log, Msg("iteration_error", Name(dbIdx), queries[qIdx],
                                       i + 1, o.err))
    /\ i' = i + 1
    /\ UNCHANGED <<databases, args, queries, all_results, pc, dbIdx, qIdx, w,
                   summaries, output>>

\* run_benchmark, line 187, and main, lines 366-367: return the results,
\* extend the accumulator and print the statistics of the pair
FinishQuery_Overwrites ==
    /\ pc = "measure"
    /\ i >= args.iterations
    /\ all_results' = results
    /\ LET s == print_statistics(results, queries[qIdx], Name(dbIdx))
       IN  /\ summaries' = Append(summaries, s)
           /\ IF s.raised
              THEN /\ pc' = "crashed"
                   /\ UNCHANGED qIdx
              ELSE /\ pc' = PcAfterQuery(qIdx)
                   /\ qIdx' = qIdx + 1
    /\ UNCHANGED <<databases, args, queries, dbIdx, w, i, results, log,
                   output, calls>>

FinishQuery ==
    /\ pc = "measure"
    /\ i >= args.iterations
    /\ all_results' = all_results \o results
    /\ LET s == print_statistics(results, queries[qIdx], Name(dbIdx))
       IN  /\ summaries' = Append(summaries, s)
           /\ IF s.raised
              THEN /\ pc' = "crashed"
                   /\ UNCHANGED qIdx
              ELSE /\ pc' = PcAfterQuery(qIdx)
                   /\ qIdx' = qIdx + 1
    /\ UNCHANGED <<databases, args, queries, dbIdx, w, i, results, log,
                   output, calls>>

\* main, lines 369-373: disconnect; an exception is printed
Disconnect_Propagates ==
    /\ pc = "disconnect"
    /\ \E ok \in BOOLEAN :
        /\ calls' = Append(calls, Call("disconnect", dbIdx, 0, 0, ok, 0))
        /\ log' = Append(log, IF ok THEN Msg("disconnected", Name(dbIdx), "", 0, "")
                              ELSE Msg("disconnect_error", Name(dbIdx), "", 0,
                                       "DisconnectError"))
        /\ IF ok
           THEN /\ dbIdx' = dbIdx + 1
                /\ pc' = PcAfterBackend(dbIdx)
           ELSE /\ pc' = "crashed"
                /\ UNCHANGED dbIdx
    /\ UNCHANGED <<databases, args, queries, all_results, qIdx, w, i, results,
                   summaries, output>>

Disconnect ==
    /\ pc = "disconnect"
    /\ \E ok \in BOOLEAN :
        /\ calls' = Append(calls, Call("disconnect", dbIdx, 0, 0, ok, 0))
        /\ log' = Append(log, IF ok THEN Msg("disconnected", Name(dbIdx), "", 0, "")
                              ELSE Msg("disconnect_error", Name(dbIdx), "", 0,
                                       "DisconnectError"))
    /\ dbIdx' = dbIdx + 1
    /\ pc' = PcAfterBackend(dbIdx)
    /\ UNCHANGED <<databases, args, queries, all_results, qIdx, w, i, results,
                   summaries, output>>

\* main, lines 375-380: save the results, or report that there are none; an
\* exception of save_results leaves main uncaught (the interpreter prints the
\* traceback and the process ends with status 1)
SaveResults ==
    /\ pc = "save"
    /\ IF all_results /= <<>>
       THEN \E writable \in BOOLEAN :
              LET r == save_results(all_results, writable)
              IN  IF r.raised
                  THEN /\ pc' = "crashed"
                       /\ log' = Append(log, Msg("traceback", "", "", 0, "OSError"))
                       /\ UNCHANGED output
                  ELSE /\ output' = r.file
                       /\ log' = log \o r.printed
                                     \o <<Msg("total", "", "", Len(all_results), "")>>
                       /\ pc' = "done"
       ELSE /\ log' = Append(log, Msg("no_results_collected", "", "", 0, ""))
            /\ pc' = "done"
            /\ UNCHANGED output
    /\ UNCHANGED <<databases, args, queries, all_results, dbIdx, qIdx, w, i,
                   results, summaries, calls>>

Next ==
    \/ Start
    \/ Connect
    \/ BeginQuery
    \/ WarmupInvoke
    \/ MeasuredInvoke
    \/ FinishQuery
    \/ Disconnect
    \/ SaveResults

Spec == Init /\ [][Next]_vars

\* main is sequential code: as long as every call on a backend returns or
\* raises, its next step is always taken
FairSpec == Spec /\ WF_vars(Next)

\* lines 383-384: the exit status of the process once main() has returned (0)
\* or an exception has left it (1)
ExitStatus == IF pc = "crashed" THEN 1 ELSE 0

\* ------------------------------------------------- print_statistics alone
\* a result list with the given response times
SamplesWithTimes(t) ==
    [k \in 1..Len(t) |-> BenchmarkResult("db1", "Q1", t[k], 0, CacheStateArg, k)]

Descending(n) == [k \in 1..n |-> n + 1 - k]
Rotated(n) == [k \in 1..n |-> ((k + (n \div 2)) % n) + 1]

StatsInputs ==
    UNION {[1..n -> 1..MaxTime] : n \in 0..MaxSamples}
    \cup {Descending(n) : n \in 1..MaxRangeLen}
    \cup {Rotated(n) : n \in 1..MaxRangeLen}

InitStats ==
    /\ databases = <<"db1">>
    /\ args = [iterations |-> 0, warmup |-> 0, queries |-> <<"all">>]
    /\ queries = <<"Q1">>
    /\ all_results = <<>>
    /\ pc = "stats"
    /\ dbIdx = 1
    /\ qIdx = 1
    /\ w = 0
    /\ i = 0
    /\ \E t \in StatsInputs : results = SamplesWithTimes(t)
    /\ log = <<>>
    /\ summaries = <<>>
    /\ output = NoFile
    /\ calls = <<>>

\* a call of print_statistics(results, query_id, db_benchmark.name)
StatsCall ==
    /\ pc = "stats"
    /\ summaries' = Append(summaries, print_statistics(results, queries[qIdx], Name(dbIdx)))
    /\ pc' = "stats_done"
    /\ UNCHANGED <<databases, args, queries, all_results, dbIdx, qIdx, w, i,
                   results, log, output, calls>>

NextStats == StatsCall

SpecStats == InitStats /\ [][NextStats]_vars

\* ------------------------------------------------- save_results alone
\* results as run_benchmark builds them, with a fixed timestamp
SampleValues ==
    {BenchmarkResult(BackendNames[b], "Q1", e * 1000, r, CacheStateArg, 1) :
        b \in 1..MaxBackends, r \in 0..MaxRows, e \in 1..MaxElapsed}

SaveInputs == UNION {[1..n -> SampleValues] : n \in 0..MaxExport}

InitSave ==
    /\ databases = <<"db1">>
    /\ args = [iterations |-> 0, warmup |-> 0, queries |-> <<"all">>]
    /\ queries = <<"Q1">>
    /\ all_results \in SaveInputs
    /\ pc = "save_call"
    /\ dbIdx = 1
    /\ qIdx = 1
    /\ w = 0
    /\ i = 0
    /\ results = <<>>
    /\ log = <<>>
    /\ summaries = <<>>
    /\ output = NoFile
    /\ calls = <<>>

\* a call of save_results(all_results, output_file), made twice in a row
SaveCall ==
    /\ pc \in {"save_call", "saved_once"}
    /\ \E writable \in BOOLEAN :
          LET r == save_results(all_results, writable)
          IN  IF r.raised
              THEN /\ pc' = "save_raised"
                   /\ UNCHANGED <<output, log>>
              ELSE /\ output' = r.file
                   /\ log' = log \o r.printed
                   /\ pc' = IF pc = "save_call" THEN "saved_once" ELSE "saved_twice"
    /\ UNCHANGED <<databases, args, queries, all_results, dbIdx, qIdx, w, i,
                   results, summaries, calls>>

NextSave == SaveCall

SpecSave == InitSave /\ [][NextSave]_vars

\* ------------------------------------------------- properties: vocabulary
\* positions in `calls` of the calls of one kind made for the pair (b, q)
CallsOf(kind, b, q) ==
    {k \in DOMAIN calls : calls[k].kind = kind /\ calls[k].b = b /\ calls[k].q = q}

OkCallsOf(kind, b, q) == {k \in CallsOf(kind, b, q) : calls[k].ok}

\* backend b has been connected to / its connect() has failed
Connected(b) == \E k \in DOMAIN calls : calls[k] = Call("connect", b, 0, 0, TRUE, 0)
ConnectFailed(b) == \E k \in DOMAIN calls : calls[k] = Call("connect", b, 0, 0, FALSE, 0)

\* the pair (b, q) has been run: its results are in the accumulator
PairDone(b, q) ==
    /\ Connected(b)
    /\ q \in DOMAIN queries
    /\ \/ b < dbIdx
       \/ b = dbIdx /\ pc \in {"disconnect"}
       \/ b = dbIdx /\ pc \in {"query", "warmup", "measure"} /\ q < qIdx

\* every Sample that exists: the accumulator and the list run_benchmark is building
Pool == all_results \o (IF pc \in {"warmup", "measure"} THEN results ELSE <<>>)

\* the Samples of a list that were taken by the call at position k of `calls`
TakenBy(rs, k) == {n \in DOMAIN rs : rs[n].timestamp = k}

\* the Samples of a list that belong to the pair (b, q)
SamplesOfPair(rs, b, q) ==
    {n \in DOMAIN rs : rs[n].timestamp \in DOMAIN calls
                        /\ calls[rs[n].timestamp].b = b
                        /\ calls[rs[n].timestamp].q = q}

\* the run has ended normally
RunEnded == pc = "done" /\ databases /= <<>>

\* ------------------------------------------------- C1
\* C1: for every (backend, operation) pair, all N measured iterations are
\* attempted and the Samples returned are exactly the successful invocations:
\* each successful measured call has exactly one Sample, carrying the row count
\* it returned (0 included), each failed call has none, and the pair's Samples
\* in the accumulator number as many as its successful calls.
C1_SamplesAreSuccesses ==
    /\ \A k \in DOMAIN calls :
          calls[k].kind = "measured" =>
             IF calls[k].ok
             THEN /\ Cardinality(TakenBy(Pool, k)) = 1
                  /\ \A n \in TakenBy(Pool, k) : Pool[n].rows_returned = calls[k].ret
             ELSE TakenBy(Pool, k) = {}
    /\ pc = "measure" =>
          /\ Cardinality(CallsOf("measured", dbIdx, qIdx)) = i
          /\ Len(results) = Cardinality(OkCallsOf("measured", dbIdx, qIdx))
    /\ \A b \in DOMAIN databases : \A q \in DOMAIN queries :
          PairDone(b, q) =>
             /\ Cardinality(CallsOf("measured", b, q)) = args.iterations
             /\ Cardinality(SamplesOfPair(all_results, b, q))
                   = Cardinality(OkCallsOf("measured", b, q))

\* a pair run with N = 2 where one iteration failed and the other returned 0
\* rows: exactly one Sample, with rows_returned = 0
C1_Witness ==
    \E b \in DOMAIN databases : \E q \in DOMAIN queries :
        /\ PairDone(b, q)
        /\ args.iterations = 2
        /\ Cardinality(OkCallsOf("measured", b, q)) = 1
        /\ Cardinality(SamplesOfPair(all_results, b, q)) = 1
        /\ \A n \in SamplesOfPair(all_results, b, q) : all_results[n].rows_returned = 0

\* ------------------------------------------------- C2
\* C2: warmup invocations never produce a Sample: every Sample that exists was
\* taken by a successful measured call and has cache_state "warm", no pair has
\* more Samples than measured iterations, every statistics summary counts only
\* the pair's successful measured calls, and the exported rows are the
\* accumulator's Samples.
C2_NoWarmupSamples ==
    /\ \A n \in DOMAIN Pool :
          /\ Pool[n].cache_state = "warm"
          /\ Pool[n].timestamp \in DOMAIN calls
          /\ calls[Pool[n].timestamp].kind = "measured"
          /\ calls[Pool[n].timestamp].ok
    /\ \A b \in DOMAIN databases : \A q \in DOMAIN queries :
          Cardinality(SamplesOfPair(Pool, b, q)) <= args.iterations
    /\ \A k \in DOMAIN summaries :
          ~summaries[k].nodata =>
             \A b \in DOMAIN databases : \A q \in DOMAIN queries :
                (Name(b) = summaries[k].db /\ queries[q] = summaries[k].op) =>
                    /\ summaries[k].count = <<Cardinality(OkCallsOf("measured", b, q))>>
                    /\ summaries[k].count[1] <= args.iterations
    /\ output.exists =>
          /\ Len(output.rows) = Len(all_results)
          /\ \A k \in DOMAIN output.rows :
                /\ output.rows[k][5] = ToString("warm")
                /\ output.rows[k][6] = ToString(all_results[k].timestamp)

\* a finished run with warmup calls that returned and that failed, and an
\* exported file
C2_Witness ==
    /\ pc = "done"
    /\ output.exists
    /\ Len(output.rows) = 2
    /\ args.warmup = 2
    /\ \E k \in DOMAIN calls : calls[k].kind = "warmup" /\ calls[k].ok
    /\ \E k \in DOMAIN calls : calls[k].kind = "warmup" /\ ~calls[k].ok

\* ------------------------------------------------- C3
\* the backend at position b has been run to completion: every query got its
\* warmup and measured invocations, and disconnect was called
RunToCompletion(b) ==
    /\ \A q \in DOMAIN queries :
          /\ Cardinality(CallsOf("warmup", b, q)) = args.warmup
          /\ Cardinality(CallsOf("measured", b, q)) = args.iterations
    /\ Cardinality(CallsOf("disconnect", b, 0)) = 1

\* C3: a backend whose connect() failed is skipped entirely (no warmup,
\* measured or disconnect call, no Sample, no summary), and once the backend
\* loop is over every backend after it has been connected to and, if the
\* connect succeeded, run to completion.
C3_FailedConnectSkipsBackend ==
    \A b \in DOMAIN databases :
        ConnectFailed(b) =>
            /\ \A k \in DOMAIN calls : calls[k].b = b => calls[k].kind = "connect"
            /\ Cardinality(CallsOf("connect", b, 0)) = 1
            /\ \A n \in DOMAIN Pool : Pool[n].database /= Name(b)
            /\ \A k \in DOMAIN summaries : summaries[k].db /= Name(b)
            /\ pc \in {"save", "done", "crashed"} =>
                  \A b2 \in DOMAIN databases :
                      b2 > b =>
                         /\ Cardinality(CallsOf("connect", b2, 0)) = 1
                         /\ Connected(b2) => RunToCompletion(b2)

\* the first backend failed to connect, the second one was run and gave Samples
C3_Witness ==
    /\ pc = "done"
    /\ ConnectFailed(1)
    /\ Connected(2)
    /\ all_results /= <<>>
    /\ \A n \in DOMAIN all_results : all_results[n].database = Name(2)

\* ------------------------------------------------- C4
\* the place of a call in the order main prescribes: backend, then connect <
\* queries < disconnect, then query, then warmup < measured, then loop index
CallKey(c) ==
    <<c.b,
      IF c.kind = "connect" THEN 0 ELSE IF c.kind = "disconnect" THEN 2 ELSE 1,
      c.q,
      IF c.kind = "measured" THEN 1 ELSE 0,
      c.idx>>

LexLess(x, y) ==
    \E j \in 1..5 : x[j] < y[j] /\ \A m \in 1..(j - 1) : x[m] = y[m]

\* C4: calls follow the supplied order without interleaving (backends in list
\* order, queries in list order, warmup before measured, loop indices
\* increasing from 0 without gaps), and the accumulator's Samples are in the
\* order of the calls that took them, each naming its backend and query.
C4_CallsInSuppliedOrder ==
    /\ \A j \in DOMAIN calls : \A k \in DOMAIN calls :
          j < k => LexLess(CallKey(calls[j]), CallKey(calls[k]))
    /\ \A b \in DOMAIN databases : \A q \in DOMAIN queries :
          \A kind \in {"warmup", "measured"} :
             {calls[k].idx : k \in CallsOf(kind, b, q)}
                = 0..(Cardinality(CallsOf(kind, b, q)) - 1)
    /\ \A m \in DOMAIN Pool : \A n \in DOMAIN Pool :
          m < n => Pool[m].timestamp < Pool[n].timestamp
    /\ \A n \in DOMAIN Pool :
          /\ Pool[n].timestamp \in DOMAIN calls
          /\ Pool[n].database = Name(calls[Pool[n].timestamp].b)
          /\ Pool[n].query_type = queries[calls[Pool[n].timestamp].q]

\* two backends, two queries each, every pair gave a Sample; and a pair with
\* two Samples is covered by C1_Witness
C4_Witness ==
    /\ pc = "done"
    /\ Len(databases) = 2
    /\ Len(queries) = 2
    /\ Len(all_results) = 4
    /\ \A b \in 1..2 : \A q \in 1..2 : SamplesOfPair(all_results, b, q) /= {}

\* ------------------------------------------------- C5
\* C5: disconnect() is called at most once per backend and only on a connected
\* backend, after every warmup and measured invocation of every query of that
\* backend has been made (none is made after it), and once main has moved past
\* a connected backend its disconnect has been called exactly once.
C5_DisconnectOnceAfterAllWork ==
    \A b \in DOMAIN databases :
        /\ Cardinality(CallsOf("disconnect", b, 0)) <= 1
        /\ \A k \in CallsOf("disconnect", b, 0) :
              /\ Connected(b)
              /\ \A q \in DOMAIN queries :
                    /\ Cardinality(CallsOf("warmup", b, q)) = args.warmup
                    /\ Cardinality(CallsOf("measured", b, q)) = args.iterations
              /\ \A j \in DOMAIN calls : calls[j].b = b => j <= k
        /\ (Connected(b) /\ b < dbIdx) => Cardinality(CallsOf("disconnect", b, 0)) = 1

\* a backend with two queries whose warmup and measured invocations failed,
\* disconnected at the end
C5_Witness ==
    /\ pc = "done"
    /\ Len(queries) = 2
    /\ args.warmup = 1
    /\ args.iterations = 1
    /\ CallsOf("disconnect", 1, 0) /= {}
    /\ \A q \in 1..2 : OkCallsOf("warmup", 1, q) = {} /\ OkCallsOf("measured", 1, q) = {}

\* ------------------------------------------------- C6
\* the step is a disconnect() that raised
FailedDisconnectStep ==
    /\ pc = "disconnect"
    /\ Len(calls') = Len(calls) + 1
    /\ ~calls'[Len(calls')].ok

\* the export step of main (lines 375-380) has been taken: save_results was
\* called, or "No results collected" was printed
ExportStepTaken ==
    \/ pc = "crashed"
    \/ \E k \in DOMAIN log : log[k].kind \in {"results_saved", "no_results_collected"}

\* C6: a disconnect() that fails is reported and not propagated: the step
\* prints the error, leaves the accumulator as it was and goes on to the next
\* backend (or to the export step after the last one); a run that has ended
\* after a failed disconnect has connected to every later backend and has taken
\* the export step, and only the export step can end the run abnormally.
C6_FailedDisconnectReported ==
    /\ [][FailedDisconnectStep =>
            /\ all_results' = all_results
            /\ log' = Append(log, Msg("disconnect_error", Name(dbIdx), "", 0,
                                      "DisconnectError"))
            /\ dbIdx' = dbIdx + 1
            /\ pc' = IF dbIdx < Len(databases) THEN "connect" ELSE "save"]_vars
    /\ [](pc \in {"done", "crashed"} =>
            \A b \in DOMAIN databases :
               (\E k \in CallsOf("disconnect", b, 0) : ~calls[k].ok) =>
                   /\ \A b2 \in DOMAIN databases :
                         b2 > b => Cardinality(CallsOf("connect", b2, 0)) = 1
                   /\ ExportStepTaken)
    /\ [](pc = "crashed" => dbIdx > Len(databases) /\ all_results /= <<>>)

\* the first backend gave a Sample and failed to disconnect; the second one was
\* run after it and the file was written with the Samples of both
C6_Witness ==
    /\ pc = "done"
    /\ \E k \in CallsOf("disconnect", 1, 0) : ~calls[k].ok
    /\ Connected(2)
    /\ \E n \in DOMAIN all_results : all_results[n].database = Name(1)
    /\ \E n \in DOMAIN all_results : all_results[n].database = Name(2)
    /\ output.exists
    /\ Len(output.rows) = Len(all_results)

\* ------------------------------------------------- C7
\* the console lines that report the failure of the call c with the backend
\* name, the operation id and the (1-based) iteration number, and its detail
ReportsOf(c) ==
    {m \in DOMAIN log :
        /\ log[m].kind = (IF c.kind = "warmup" THEN "warmup_error" ELSE "iteration_error")
        /\ log[m].db = Name(c.b)
        /\ log[m].op = queries[c.q]
        /\ log[m].iter = c.idx + 1
        /\ log[m].detail = "QueryError"}

\* C7: every failed invocation, warmup or measured, is reported exactly once
\* with the backend name, the operation id and the iteration index of the
\* failing iteration, and the error detail.
C7_EveryFailureReportedWithContext ==
    \A k \in DOMAIN calls :
        (calls[k].kind \in {"warmup", "measured"} /\ ~calls[k].ok) =>
            Cardinality(ReportsOf(calls[k])) = 1

\* ------------------------------------------------- C8
\* C8: a failing warmup invocation aborts nothing: when the measured loop of a
\* pair starts, all `warmup` invocations of the pair have been made, and every
\* pair that has been run received exactly warmup + iterations invocations.
C8_WarmupFailuresDoNotAbort ==
    /\ pc = "measure" => Cardinality(CallsOf("warmup", dbIdx, qIdx)) = args.warmup
    /\ pc = "warmup" => Cardinality(CallsOf("warmup", dbIdx, qIdx)) = w /\ w < args.warmup
    /\ \A b \in DOMAIN databases : \A q \in DOMAIN queries :
          PairDone(b, q) =>
             /\ Cardinality(CallsOf("warmup", b, q)) = args.warmup
             /\ Cardinality(CallsOf("measured", b, q)) = args.iterations
             /\ Cardinality({k \in DOMAIN calls : calls[k].b = b /\ calls[k].q = q})
                   = args.warmup + args.iterations

\* a pair whose two warmup invocations both failed and whose two measured
\* iterations were then run
C8_Witness ==
    \E b \in DOMAIN databases : \E q \in DOMAIN queries :
        /\ PairDone(b, q)
        /\ args.warmup = 2
        /\ args.iterations = 2
        /\ OkCallsOf("warmup", b, q) = {}
        /\ Cardinality(CallsOf("warmup", b, q)) = 2
        /\ Cardinality(OkCallsOf("measured", b, q)) = 2

\* ------------------------------------------------- C10
\* C10: for a pair without Samples print_statistics reports "no results" and
\* computes nothing (no count, mean, median, min, max, stddev or percentile)
\* and raises nothing, a pair with Samples is never reported so, and main goes
\* on: the summaries printed are those of the pairs run so far, one each.
C10_EmptyResultsReportNoData ==
    /\ \A k \in DOMAIN summaries :
          /\ ~summaries[k].raised
          /\ \A b \in DOMAIN databases : \A q \in DOMAIN queries :
                (Name(b) = summaries[k].db /\ queries[q] = summaries[k].op) =>
                    (summaries[k].nodata <=> OkCallsOf("measured", b, q) = {})
          /\ summaries[k].nodata =>
                /\ summaries[k].count = <<>>
                /\ summaries[k].mean = <<>>
                /\ summaries[k].median = <<>>
                /\ summaries[k].min = <<>>
                /\ summaries[k].max = <<>>
                /\ summaries[k].stdev = <<>>
                /\ ~summaries[k].stdev_na
                /\ summaries[k].p95 = <<>>
                /\ summaries[k].p99 = <<>>
    /\ Len(summaries)
          = Cardinality({bq \in (DOMAIN databases) \X (DOMAIN queries) :
                           PairDone(bq[1], bq[2])})

\* every measured iteration of the first query failed: "no results" was
\* reported for it, and the second query was then run and summarised
C10_Witness ==
    /\ pc = "done"
    /\ Len(summaries) = 2
    /\ args.iterations = 2
    /\ summaries[1].nodata
    /\ Cardinality(CallsOf("measured", 1, 1)) = 2
    /\ ~summaries[2].nodata
    /\ summaries[2].count = <<2>>

\* ------------------------------------------------- C9
\* floor(n * pct / 100), by its defining inequalities
FloorPct(n, pct) == CHOOSE j \in 0..n : 100 * j <= pct * n /\ pct * n < 100 * (j + 1)

\* v is the element at 0-based index idx of the ascending arrangement of t
IsOrderStatistic(t, idx, v) ==
    /\ v \in Range(t)
    /\ Cardinality({k \in DOMAIN t : t[k] < v}) <= idx
    /\ idx < Cardinality({k \in DOMAIN t : t[k] <= v})

\* C9: for every sample count n >= 1 print_statistics raises nothing and
\* reports as P95 and P99 the elements at indices floor(n*0.95) and
\* floor(n*0.99) of the times in ascending order; both indices lie in
\* [0, n-1]; for n = 1 both are the single value, and for the values 1..10
\* both are 10.
C9_PercentilesByFloorIndex ==
    (pc = "stats_done" /\ results /= <<>>) =>
        LET t == TimesOf(results)
            n == Len(t)
            s == summaries[1]
        IN  /\ ~s.raised
            /\ Len(s.p95) = 1
            /\ Len(s.p99) = 1
            /\ FloorPct(n, 95) \in 0..(n - 1)
            /\ FloorPct(n, 99) \in 0..(n - 1)
            /\ IsOrderStatistic(t, FloorPct(n, 95), s.p95[1])
            /\ IsOrderStatistic(t, FloorPct(n, 99), s.p99[1])
            /\ n = 1 => s.p95 = <<t[1]>> /\ s.p99 = <<t[1]>>
            /\ (n = 10 /\ Range(t) = 1..10) => s.p95 = <<10>> /\ s.p99 = <<10>>

\* the values 1..10 given out of order: P95 = P99 = 10
C9_Witness ==
    /\ pc = "stats_done"
    /\ TimesOf(results) = Descending(10)
    /\ summaries[1].p95 = <<10>>
    /\ summaries[1].p99 = <<10>>

\* ------------------------------------------------- C11
\* the sample variance of t is num/den: den * sum((x - mean)^2) = num * (n - 1),
\* with the squares taken over the common denominator n
IsSampleVariance(t, v) ==
    LET n == Len(t)
        S == SumSeq(t)
        dev2 == [k \in 1..n |-> (n * t[k] - S) * (n * t[k] - S)]
    IN  /\ v.den > 0
        /\ v.den * SumSeq(dev2) = v.num * n * n * (n - 1)

\* C11: print_statistics reports a standard deviation (the square root of the
\* sample variance) exactly when there are at least 2 samples; for 1 sample it
\* prints "N/A" for it (no value, not zero, no exception) and still reports
\* count, mean, median, min, max, P95 and P99, all equal to the single value.
C11_StdevOnlyFromTwoSamples ==
    (pc = "stats_done" /\ results /= <<>>) =>
        LET t == TimesOf(results)
            n == Len(t)
            s == summaries[1]
        IN  /\ ~s.raised
            /\ (Len(s.stdev) = 1) <=> (n >= 2)
            /\ s.stdev_na <=> (n = 1)
            /\ n >= 2 => IsSampleVariance(t, s.stdev[1])
            /\ n = 1 =>
                  /\ s.stdev = <<>>
                  /\ s.count = <<1>>
                  /\ s.mean = <<Rat(t[1], 1)>>
                  /\ s.median = <<Rat(t[1], 1)>>
                  /\ s.min = <<t[1]>>
                  /\ s.max = <<t[1]>>
                  /\ s.p95 = <<t[1]>>
                  /\ s.p99 = <<t[1]>>

\* a single sample: everything but the standard deviation is reported
C11_Witness ==
    /\ pc = "stats_done"
    /\ Len(results) = 1
    /\ summaries[1].stdev_na
    /\ summaries[1].stdev = <<>>
    /\ summaries[1].mean = <<Rat(results[1].response_time, 1)>>

\* ------------------------------------------------- C17
\* lo <= num/den <= hi, for den > 0
RatBetween(lo, r, hi) == r.den > 0 /\ lo * r.den <= r.num /\ r.num <= hi * r.den

\* C17: for count >= 1 the reported min and max are the least and greatest
\* elapsed time, and min <= median <= max, min <= mean <= max and
\* min <= P95 <= P99 <= max.
C17_StatisticsWithinRange ==
    (pc = "stats_done" /\ results /= <<>>) =>
        LET t == TimesOf(results)
            s == summaries[1]
        IN  /\ Len(s.min) = 1 /\ Len(s.max) = 1
            /\ s.min[1] \in Range(t) /\ s.max[1] \in Range(t)
            /\ \A x \in Range(t) : s.min[1] <= x /\ x <= s.max[1]
            /\ RatBetween(s.min[1], s.median[1], s.max[1])
            /\ RatBetween(s.min[1], s.mean[1], s.max[1])
            /\ s.min[1] <= s.p95[1]
            /\ s.p95[1] <= s.p99[1]
            /\ s.p99[1] <= s.max[1]

\* an even number of unequal samples: the median is the average of the two
\* middle values and lies strictly between min and max, P95 is below the max
C17_Witness ==
    /\ pc = "stats_done"
    /\ TimesOf(results) = Descending(22)
    /\ summaries[1].median = <<Rat(23, 2)>>
    /\ summaries[1].min = <<1>>
    /\ summaries[1].max = <<22>>
    /\ summaries[1].p95 = <<21>>
    /\ summaries[1].p99 = <<22>>

\* ------------------------------------------------- C12
\* C12: when save_results is called with an empty list it writes no file at
\* the destination and reports that there is nothing to save, without raising.
C12_EmptyExportWritesNoFile ==
    (all_results = <<>> /\ pc \in {"saved_once", "saved_twice"}) =>
        /\ ~output.exists
        /\ \E k \in DOMAIN log : log[k].kind = "no_results_to_save"

\* C12, the whole run: a run of main that collected no Sample does not call
\* save_results: no file exists and "No results collected" is printed.
C12_RunWithoutSamplesWritesNoFile ==
    (pc = "done" /\ databases /= <<>> /\ all_results = <<>>) =>
        /\ ~output.exists
        /\ \E k \in DOMAIN log : log[k].kind = "no_results_collected"
        /\ \A k \in DOMAIN log : log[k].kind \notin {"results_saved", "traceback"}

\* ------------------------------------------------- C13
\* the row of the Sample r: its six fields in the header's order, as text
RowOf(r) ==
    <<ToString(r.database), ToString(r.query_type), ToString(r.response_time),
      ToString(r.rows_returned), ToString(r.cache_state), ToString(r.timestamp)>>

\* C13: for a non-empty list save_results writes the header database,
\* query_type, response_time_ms, rows_returned, cache_state, timestamp and then
\* exactly one row per Sample in the list's order (row k is Sample k), and
\* saving the same list a second time leaves the same file content.
C13_ExportRowsInOrder ==
    /\ []((all_results /= <<>> /\ pc \in {"saved_once", "saved_twice"}) =>
            /\ output.exists
            /\ output.header = <<"database", "query_type", "response_time_ms",
                                 "rows_returned", "cache_state", "timestamp">>
            /\ Len(output.rows) = Len(all_results)
            /\ \A k \in DOMAIN all_results : output.rows[k] = RowOf(all_results[k]))
    /\ [][(pc = "saved_once" /\ pc' = "saved_twice") => output' = output]_vars

\* three Samples, one of them twice, saved two times
C13_Witness ==
    /\ pc = "saved_twice"
    /\ Len(all_results) = 3
    /\ all_results[1] = all_results[3]
    /\ all_results[1].database /= all_results[2].database
    /\ all_results[1].rows_returned /= all_results[2].rows_returned
    /\ Len(output.rows) = 3
    /\ output.rows[1] /= output.rows[2]

\* ------------------------------------------------- C14
\* s is t with some elements left out: the same elements in the same order
IsSubsequenceOf(s, t) ==
    \E f \in [DOMAIN s -> DOMAIN t] :
        /\ \A k \in DOMAIN s : t[f[k]] = s[k]
        /\ \A j \in DOMAIN s : \A k \in DOMAIN s : j < k => f[j] < f[k]

\* main has built its list of queries
QueriesBuilt == pc /= "start" /\ databases /= <<>>

\* C14: with a filter, the queries run are exactly the catalog's queries whose
\* id is in the filter, in the catalog's order; ids of the filter that match
\* nothing are ignored, and when none matches the list is empty: no query is
\* invoked on any backend, no Sample is collected and the run ends normally.
C14_FilterKeepsMatchingInOrder ==
    QueriesBuilt =>
        /\ args.queries = <<"all">> => queries = Catalog
        /\ args.queries /= <<"all">> =>
              /\ Range(queries) = Range(Catalog) \cap Range(args.queries)
              /\ IsSubsequenceOf(queries, Catalog)
              /\ Len(queries) = Cardinality(Range(queries))
        /\ \A k \in DOMAIN calls :
              calls[k].kind \in {"warmup", "measured"} => calls[k].q \in DOMAIN queries
        /\ Range(Catalog) \cap Range(args.queries) = {} /\ args.queries /= <<"all">> =>
              /\ queries = <<>>
              /\ \A k \in DOMAIN calls : calls[k].kind \in {"connect", "disconnect"}
              /\ Pool = <<>>
              /\ summaries = <<>>
              /\ pc /= "crashed"
              /\ pc = "done" => ExitStatus = 0 /\ ~output.exists

\* the filter "Q2,Q1" on the catalog Q1, Q2: both are run, in the catalog's order
C14_Witness ==
    /\ pc = "done"
    /\ args.queries = <<"Q2", "Q1">>
    /\ queries = <<"Q1", "Q2">>
    /\ Len(summaries) = 2
    /\ summaries[1].op = "Q1"
    /\ summaries[2].op = "Q2"
\* ------------------------------------------------- C15
\* the process has ended
ProcessEnded == pc \in {"done", "crashed"}

\* C15: the process exits with a non-zero status only if no Sample was
\* collected in the whole run; a run that collected a Sample exits with 0.
C15_NonZeroExitOnlyWithoutSamples ==
    ProcessEnded => (ExitStatus /= 0 => all_results = <<>>)

\* ------------------------------------------------- C16
\* save_results has been called / its open() has raised
ExportAttempted ==
    \E k \in DOMAIN log : log[k].kind \in {"results_saved", "traceback"}
ExportFailed == \E k \in DOMAIN log : log[k].detail = "OSError"

\* C16: save_results is called only after every backend has been processed
\* (connect attempted for each, disconnect attempted for each connected one),
\* and when the export fails the failure is reported and does not propagate:
\* main returns normally with the collected Samples still in the accumulator.
C16_ExportFailureReportedNotPropagated ==
    /\ ExportAttempted =>
          /\ dbIdx > Len(databases)
          /\ \A b \in DOMAIN databases :
                /\ Cardinality(CallsOf("connect", b, 0)) = 1
                /\ Connected(b) => Cardinality(CallsOf("disconnect", b, 0)) = 1
    /\ ExportFailed =>
          /\ all_results /= <<>>
          /\ pc = "done"
          /\ ExitStatus = 0

\* C16, the part that holds: the export is attempted only after every backend
\* has been processed, and a failing export leaves the accumulator unchanged.
C16_ExportAfterAllBackends ==
    /\ [](ExportAttempted =>
            /\ dbIdx > Len(databases)
            /\ \A b \in DOMAIN databases :
                  /\ Cardinality(CallsOf("connect", b, 0)) = 1
                  /\ Connected(b) => Cardinality(CallsOf("disconnect", b, 0)) = 1)
    /\ [][pc = "save" => all_results' = all_results]_vars
\* ------------------------------------------------- C18
\* main has reached its save block (lines 375-380): save_results was called
\* (and wrote the file or raised), or "No results collected" was printed
EndedInExportOrNoResults ==
    \E k \in DOMAIN log :
        log[k].kind \in {"results_saved", "traceback", "no_results_collected"}

\* C18 as stated: a run ends in the export step or in the "no results
\* collected" report.
C18_EndsInExportOrNoResults == ProcessEnded => EndedInExportOrNoResults

\* C18, amended: if every connect, invocation and disconnect returns or
\* raises, every run terminates, for every pattern of failures; it ends in the
\* export step or in the "No results collected" report when the backend list is
\* not empty, and with the "No database benchmark implementations available"
\* report, before any call, when it is empty.
C18_RunTerminates ==
    /\ <>ProcessEnded
    /\ [](ProcessEnded =>
            IF databases = <<>>
            THEN /\ calls = <<>>
                 /\ \E k \in DOMAIN log : log[k].kind = "no_databases"
                 /\ ~EndedInExportOrNoResults
            ELSE EndedInExportOrNoResults)

\* a run that ended in the export step after a failed connect, a failed
\* invocation and a failed disconnect
C18_Witness ==
    /\ pc = "done"
    /\ \E k \in DOMAIN log : log[k].kind = "results_saved"
    /\ \E k \in DOMAIN calls : calls[k].kind = "connect" /\ ~calls[k].ok
    /\ \E k \in DOMAIN calls : calls[k].kind = "measured" /\ ~calls[k].ok
    /\ \E k \in DOMAIN calls : calls[k].kind = "disconnect" /\ ~calls[k].ok
\* ------------------------------------------------- C19
IsPrefixOf(a, b) == Len(a) <= Len(b) /\ SubSeq(b, 1, Len(a)) = a

\* the Samples of a list taken by the measured invocations of the pair (b, q)
MeasuredOfPair(rs, b, q) ==
    SelectSeq(rs, LAMBDA r : /\ r.timestamp \in DOMAIN calls
                             /\ calls[r.timestamp].kind = "measured"
                             /\ calls[r.timestamp].b = b
                             /\ calls[r.timestamp].q = q)

\* C19: in every step the accumulator's old content is a prefix of its new
\* content; the only step that extends it is the one taken when a pair's
\* measured iterations are over, and it appends exactly that pair's measured
\* Samples; the statistics reported in that step are those of the pair's
\* Samples alone, and the step leaves those Samples, and the accumulator
\* beyond the append, unchanged.
C19_AccumulatorAppendOnly ==
    [][ /\ IsPrefixOf(all_results, all_results')
        /\ (all_results' /= all_results \/ summaries' /= summaries) =>
             /\ pc = "measure" /\ i >= args.iterations
             /\ all_results' = all_results \o MeasuredOfPair(all_results', dbIdx, qIdx)
             /\ MeasuredOfPair(all_results, dbIdx, qIdx) = <<>>
             /\ results' = results
             /\ results = MeasuredOfPair(all_results', dbIdx, qIdx)
             /\ summaries' = Append(summaries,
                    print_statistics(MeasuredOfPair(all_results', dbIdx, qIdx),
                                     queries[qIdx], Name(dbIdx)))
             /\ summaries'[Len(summaries')].count \in
                    {<<>>, <<Len(all_results') - Len(all_results)>>}
      ]_vars

\* two pairs have been reported, each with Samples, and the accumulator holds
\* the Samples of both
C19_Witness ==
    /\ Len(summaries) = 2
    /\ summaries[1].count /= <<>>
    /\ summaries[2].count /= <<>>
    /\ Len(all_results) = summaries[1].count[1] + summaries[2].count[1]
\* ------------------------------------------------- C20
\* after the first k calls, backend b is between its successful connect and
\* its disconnect attempt
OpenAt(b, k) ==
    \E j \in 1..k :
        /\ calls[j] = Call("connect", b, 0, 0, TRUE, 0)
        /\ \A d \in (j + 1)..k : ~(calls[d].kind = "disconnect" /\ calls[d].b = b)

OpenBackendsAt(k) == {b \in DOMAIN databases : OpenAt(b, k)}

\* C20: at every point of a run at most one backend is between its successful
\* connect and its disconnect attempt; every warmup or measured invocation is
\* issued against that backend; every Sample's database field is the name of
\* the backend that was open when the Sample was taken; and connect is
\* attempted only when no backend is open.
C20_OneBackendOpenAtATime ==
    /\ \A k \in 0..Len(calls) : Cardinality(OpenBackendsAt(k)) <= 1
    /\ \A k \in DOMAIN calls :
        /\ calls[k].kind \in {"warmup", "measured"} =>
               OpenBackendsAt(k - 1) = {calls[k].b}
        /\ calls[k].kind = "connect" => OpenBackendsAt(k - 1) = {}
    /\ \A n \in DOMAIN Pool :
        /\ Pool[n].timestamp \in DOMAIN calls
        /\ \E b \in OpenBackendsAt(Pool[n].timestamp) :
               Pool[n].database = databases[b]

\* both backends were connected in turn and each contributed a Sample
C20_Witness ==
    /\ Len(databases) = 2
    /\ \A b \in DOMAIN databases :
        /\ Connected(b)
        /\ \E n \in DOMAIN all_results : all_results[n].database = databases[b]
    /\ \E k \in DOMAIN calls : calls[k].kind = "connect" /\ calls[k].b = 2
====
